---- MODULE Spec2Model ----
(***************************************************************************)
(* SmartDocFlow: the document ingestion state machine.                     *)
(*                                                                         *)
(* One workflow request (execute_document_processing_workflow) owns one    *)
(* database session (get_db).  process_document stores the document row    *)
(* through that session and detaches _generate_embeddings as a background  *)
(* task that keeps using the same session, while the workflow polls the    *)
(* document status through it (_wait_for_processing), logs its outcome     *)
(* and finally lets get_db close the session.                              *)
(*                                                                         *)
(* Granularity: one action per awaited statement of the background task    *)
(* and per loop step of the polling helper.  A session holds the writes    *)
(* executed but not yet committed; a commit issued by anyone on the        *)
(* session persists all of them, a close rolls them back, and a read       *)
(* through the session sees them.                                          *)
(***************************************************************************)
EXTENDS Integers, Sequences, FiniteSets, TLC

(***************************************************************************)
(* Bounds                                                                  *)
(***************************************************************************)
\* timeout argument of _wait_for_processing (the callers use the default
\* of 60; the model scales it down)
WaitTimeout == 5

\* longest time (in whole seconds) one status query may take
MaxPollDelay == 1

(***************************************************************************)
(* Program constants                                                       *)
(***************************************************************************)
\* asyncio.sleep(2) between two polls
SleepInterval == 2

\* timedelta.seconds is the seconds component of a normalised timedelta
SecondsPerDay == 86400

(***************************************************************************)
(* Requests.  Every request has its own session, its own document id and   *)
(* its own workflow record, and no step of one request reads or writes     *)
(* what belongs to another, so one request shows every behaviour of the    *)
(* ingestion state machine.                                                *)
(***************************************************************************)
Reqs == {"r1"}

(***************************************************************************)
(* Pure functions                                                          *)
(***************************************************************************)
None == "None"

\* file names are sequences of characters
Filenames ==
  { <<"a", ".", "p", "d", "f">>,
    <<"a", ".", "T", "X", "T">>,
    <<"a", ".", "p", "n", "g">>,
    <<"a", ".", "j", "p", "g">>,
    <<"a", ".", "J", "p", "e", "g">>,
    <<"a", ".", "e", "x", "e">>,
    <<"p", "d", "f">>,
    <<".", "p", "d", "f">>,
    <<"a", ".", "t", "x", "t", ".", "b", "a", "k">>,
    <<"a", ".", "p", "d", "f", ".">> }

UpperToLower ==
  ("T" :> "t") @@ ("X" :> "x") @@ ("J" :> "j") @@ ("P" :> "p") @@
  ("D" :> "d") @@ ("F" :> "f") @@ ("N" :> "n") @@ ("G" :> "g") @@ ("E" :> "e")

\* str.lower()
Lower(s) ==
  [i \in 1..Len(s) |-> IF s[i] \in DOMAIN UpperToLower THEN UpperToLower[s[i]] ELSE s[i]]

\* str.rfind('.'), 1-based; 0 when there is no dot
RFindDot(s) ==
  LET dots == {i \in 1..Len(s) : s[i] = "."}
  IN IF dots = {} THEN 0 ELSE CHOOSE i \in dots : \A j \in dots : j <= i

\* pathlib's PurePath.suffix of a final path component: the part from the
\* last dot on, unless that dot is the first or the last character
Suffix(name) ==
  LET i == RFindDot(name)
  IN IF 1 < i /\ i < Len(name) THEN SubSeq(name, i, Len(name)) ELSE <<>>

\* a _get_file_type that falls back to plain text instead of raising
GetFileTypeLenient(filename) ==
  LET ext == Lower(Suffix(filename))
  IN IF ext = <<".", "p", "d", "f">> THEN "pdf"
     ELSE IF ext = <<".", "p", "n", "g">> THEN "png"
     ELSE IF ext = <<".", "j", "p", "g">> THEN "jpg"
     ELSE IF ext = <<".", "j", "p", "e", "g">> THEN "jpeg"
     ELSE "txt"

\* the FileType enum: the member with the given value
FileType(value) ==
  CASE value = <<"p", "d", "f">> -> "pdf"
    [] value = <<"t", "x", "t">> -> "txt"
    [] value = <<"p", "n", "g">> -> "png"
    [] value = <<"j", "p", "g">> -> "jpg"
    [] value = <<"j", "p", "e", "g">> -> "jpeg"

\* DocumentProcessor._get_file_type
GetFileType(filename) ==
  LET ext == Lower(Suffix(filename))
  IN IF ext = <<".", "p", "d", "f">> THEN "pdf"
     ELSE IF ext = <<".", "t", "x", "t">> THEN "txt"
     ELSE IF ext \in {<<".", "p", "n", "g">>, <<".", "j", "p", "g">>, <<".", "j", "p", "e", "g">>}
     THEN FileType(Tail(ext))
     ELSE "ValueError"

\* the members of the FileType enum
FileTypes == {"pdf", "txt", "png", "jpg", "jpeg"}

\* settings.ALLOWED_EXTENSIONS
ALLOWED_EXTENSIONS ==
  { <<".", "p", "d", "f">>, <<".", "t", "x", "t">>, <<".", "p", "n", "g">>,
    <<".", "j", "p", "g">>, <<".", "j", "p", "e", "g">> }

\* what the uploaded bytes are to the extraction libraries: a file with
\* text in it, a well-formed file without any text, or bytes the library
\* (PyPDF2, utf-8 decoding, PIL/pytesseract) raises on
FileKinds == {"text", "blank", "corrupt"}

Text == "Q3 revenue rose 12%"

\* an _extract_text that degrades a failed extraction to the empty string
ExtractTextEmptyOnError(kind, file_type) ==
  IF file_type \in FileTypes
  THEN CASE kind = "text" -> Text
         [] kind = "blank" -> ""
         [] kind = "corrupt" -> ""
  ELSE None

\* DocumentProcessor._extract_text: the extractor's exception is caught
\* and turned into None
ExtractText(kind, file_type) ==
  IF file_type \in FileTypes
  THEN CASE kind = "text" -> Text
         [] kind = "blank" -> ""
         [] kind = "corrupt" -> None
  ELSE None

\* Python truthiness of an Optional[str]
Truthy(content) == content # None /\ content # ""

\* DocumentProcessor._generate_content_hash
GenerateContentHash(content) ==
  IF content = "" THEN "e3b0c44298fc1c14" ELSE "sha256(Q3 revenue rose 12%)"

\* process_document line 39
ContentHash(content) ==
  IF Truthy(content) THEN GenerateContentHash(content) ELSE None

\* timedelta.seconds of an elapsed time of e whole seconds
Seconds(e) == e % SecondsPerDay

Terminal == {"completed", "failed"}

(***************************************************************************)
(* State                                                                   *)
(***************************************************************************)
VARIABLES
  statusColumn,         \* the status column of the documents table
  documents,            \* committed rows of documents, by document id
  document_embeddings,  \* committed rows of document_embeddings, per document
  workflow_executions,  \* committed status of the workflow's record
  session,              \* writes executed on the request's session, uncommitted
  wf,                   \* the workflow coroutine of each request
  task,                 \* the detached _generate_embeddings task of each request
  createdAtField,       \* the created_at field of DocumentSearchResult
  corpus,               \* what the store holds for the search request's query
  request,              \* the search request
  search,               \* the search handler serving the request
  search_logs,          \* committed rows of search_logs
  action,               \* the call of an external action operation
  external_actions      \* committed rows of external_actions

\* the state of the retrieval engine
searchVars == <<createdAtField, corpus, request, search, search_logs>>

\* the state of the external action service
actionVars == <<action, external_actions>>

vars == <<statusColumn, documents, document_embeddings, workflow_executions,
          session, wf, task, searchVars, actionVars>>

(***************************************************************************)
(* The retrieval engine: the corpus and the search request                 *)
(*                                                                         *)
(* Scores, distances and thresholds are counted in tenths, so that         *)
(* 1 - distance and 0.6 v + 0.4 f are exact.  Timestamps are counted in    *)
(* days.  Python's None is the empty tuple where the other values are      *)
(* numbers: an Optional[float] is <<>> or <<x>>.                           *)
(***************************************************************************)
\* the documents of the corpus the search request meets
Docs == {"d1", "d2", "d3"}

\* documents.file_type of each document
DocFileType == ("d1" :> "pdf") @@ ("d2" :> "txt") @@ ("d3" :> "pdf")

\* documents.created_at of each document
DocCreatedAt == ("d1" :> 1) @@ ("d2" :> 2) @@ ("d3" :> 3)

\* the distances (<->) a stored embedding may have to the query vector:
\* 0.0, 0.5 and 1.5
Distances == {0, 5, 15}

\* the scores MATCH ... AGAINST may give a document: 0 (no match), 0.5, 1.5
Relevances == {0, 5, 15}

\* the corpora: the documents with an embedding row, the distance of each
\* embedding to the query vector, the full-text score of each document; d3
\* is the document whose embedding may be missing
Corpora ==
  { c \in [embedded : {Docs, Docs \ {"d3"}},
           distance : [Docs -> Distances],
           relevance : [Docs -> Relevances]] :
      \A d \in Docs \ c.embedded : c.distance[d] = 0 }

EmptyCorpus ==
  [embedded |-> {}, distance |-> [d \in Docs |-> 0], relevance |-> [d \in Docs |-> 0]]

\* Optional[...] values
Nothing == <<>>

Some(x) == <<x>>

\* DocumentSearchRequest.search_type, and the similar-to-document endpoint
SearchTypes == {"vector", "fulltext", "hybrid"}

\* search types a client may send besides the lower-case names of the three
\* searches: DocumentSearchRequest.search_type is any str (line 101)
OtherSearchTypes == {"Hybrid", "Semantic", "semantic"}

\* request.search_type.lower(), search_documents line 27, on the search
\* types of the model
LowerSearchType(search_type) ==
  CASE search_type = "Hybrid" -> "hybrid"
    [] search_type = "Semantic" -> "semantic"
    [] OTHER -> search_type

\* DocumentSearchRequest.limit (no validator restricts it); largest limit
\* of the model
MaxLimit == 2

Limits == 0..MaxLimit

\* DocumentSearchRequest.threshold: 0.5 and 2.0
Thresholds == {5, 20}

\* DocumentSearchRequest.file_types; <<>> is None as well as the empty
\* list, which line 39 does not tell apart
FileTypeFilters == {<<>>, <<"pdf">>}

\* DocumentSearchRequest.date_from and date_to
DateBounds == {Nothing, Some(2)}

\* the caller's query text
Queries == {"revenue"}

\* a document id no row of the store carries
MissingDoc == "d0"

\* the limits and thresholds the Query(...) validators of the GET endpoints
\* let through: 1 <= limit <= 100 and 0.0 <= threshold <= 1.0
QueryLimits == {l \in Limits : l >= 1}

QueryThresholds == {t \in Thresholds : t <= 10}

\* the requests to POST /search (endpoint "search"), to GET /search/vector
\* and GET /search/fulltext, and to GET /search/similar/{document_id}
\* (endpoint "similar", with the reference document's id); a full-text
\* request comes with one threshold only, which the full-text search does
\* not read, and the file-type filter comes without a date range
SearchRequests ==
  { q \in [endpoint : {"search"}, query : Queries, search_type : SearchTypes,
           limit : Limits, threshold : Thresholds, file_types : FileTypeFilters,
           date_from : DateBounds, date_to : DateBounds, document_id : {"none"}] :
      /\ q.search_type = "fulltext" => q.threshold = 5
      /\ q.file_types # <<>> => (q.date_from = Nothing /\ q.date_to = Nothing) }
  \cup
  [endpoint : {"search"}, query : Queries, search_type : OtherSearchTypes,
   limit : Limits, threshold : {5}, file_types : FileTypeFilters,
   date_from : {Nothing}, date_to : {Nothing}, document_id : {"none"}]
  \cup
  [endpoint : {"vector"}, query : Queries, search_type : {"vector"},
   limit : QueryLimits, threshold : QueryThresholds, file_types : {<<>>},
   date_from : {Nothing}, date_to : {Nothing}, document_id : {"none"}]
  \cup
  [endpoint : {"fulltext"}, query : Queries, search_type : {"fulltext"},
   limit : QueryLimits, threshold : {5}, file_types : {<<>>},
   date_from : {Nothing}, date_to : {Nothing}, document_id : {"none"}]
  \cup
  [endpoint : {"similar"}, query : {""}, search_type : {"vector"},
   limit : QueryLimits, threshold : QueryThresholds, file_types : {<<>>},
   date_from : {Nothing}, date_to : {Nothing},
   document_id : Docs \cup {MissingDoc}]

NoRequest ==
  [endpoint |-> "none", query |-> "", search_type |-> "none", limit |-> 0,
   threshold |-> 0, file_types |-> <<>>, date_from |-> Nothing,
   date_to |-> Nothing, document_id |-> "none"]

\* no search is being served
IdleSearch ==
  [pc |-> "idle", similar_docs |-> <<>>, search_results |-> <<>>,
   vector_results |-> <<>>, fulltext_results |-> <<>>, mode_results |-> <<>>,
   results |-> <<>>, response |-> <<>>, total_count |-> 0, status_code |-> 0,
   error |-> "none", index_queries |-> 0, query_vector |-> <<>>,
   log_raised |-> FALSE]

\* no external action is being called
NoAction ==
  [pc |-> "idle", type |-> "none", client |-> FALSE, workflow_known |-> FALSE,
   channel |-> None, slack_channel_id |-> None, target_channel |-> None,
   sent |-> "none", success |-> FALSE, exited |-> FALSE, pending |-> FALSE,
   status |-> "none", raised |-> FALSE]

NoRow ==
  [exists |-> FALSE, file_type |-> "none", content |-> None,
   content_hash |-> None, status |-> "none"]

NoDocument == [id |-> "none", content |-> None, content_hash |-> None, status |-> "none"]

EmptySession == [embeddings |-> 0, status |-> "none", workflow |-> "none"]

\* a workflow that has not started
NewWorkflow ==
  [pc |-> "new", filename |-> <<>>, kind |-> "none", document |-> NoDocument,
   elapsed |-> 0, polls |-> 0, observed |-> "none",
   result |-> "none", error |-> "none", atTimeout |-> "none",
   reraised |-> "none"]

\* no embedding task yet; inserts and updates count the INSERTs into
\* document_embeddings and the status UPDATEs the task has executed
NoTask ==
  [pc |-> "none", raised |-> FALSE, fault |-> FALSE, inserts |-> 0, updates |-> 0]

\* init_db creates documents without a status column, and CREATE TABLE IF
\* NOT EXISTS keeps a documents table that is already there; the statements
\* of DocumentProcessor read and write a status column, and the row insert
\* leaves it to the column's default.  Both tables are modelled: the one
\* init_db creates ("absent") and one with the column, defaulting to the
\* status process_document reports
StatusColumns == {"absent", "processing"}

Init ==
  /\ statusColumn \in StatusColumns
  /\ documents = [r \in Reqs |-> NoRow]
  /\ document_embeddings = [r \in Reqs |-> 0]
  /\ workflow_executions = [r \in Reqs |-> "none"]
  /\ session = [r \in Reqs |-> EmptySession]
  /\ wf = [r \in Reqs |-> NewWorkflow]
  /\ task = [r \in Reqs |-> NoTask]
  /\ createdAtField = "required"
  /\ corpus = EmptyCorpus
  /\ request = NoRequest
  /\ search = IdleSearch
  /\ search_logs = <<>>
  /\ action = NoAction
  /\ external_actions = <<>>

(***************************************************************************)
(* The session                                                             *)
(***************************************************************************)
\* the documents table after the session's pending writes are committed
CommitDocuments(r) ==
  IF session[r].status # "none" /\ documents[r].exists
  THEN [documents EXCEPT ![r].status = session[r].status]
  ELSE documents

CommitEmbeddings(r) ==
  [document_embeddings EXCEPT ![r] = @ + session[r].embeddings]

CommitWorkflows(r) ==
  IF session[r].workflow # "none"
  THEN [workflow_executions EXCEPT ![r] = session[r].workflow]
  ELSE workflow_executions

\* the status a SELECT through the session sees: its own uncommitted
\* update, else the committed row
VisibleStatus(r) ==
  IF session[r].status # "none" THEN session[r].status ELSE documents[r].status

\* DocumentProcessor.get_document_status
GetDocumentStatus(r) ==
  IF statusColumn = "absent" THEN "db_error"
  ELSE IF ~documents[r].exists THEN "not_found"
  ELSE VisibleStatus(r)

\* what get_document_status does for an id no row carries: the SELECT
\* raises when there is no status column, else ValueError (not found)
StatusOfMissingDocument ==
  IF statusColumn = "absent" THEN "db_error" ELSE "not_found"

\* DocumentProcessor.get_document_content, line 223, of the fetched row:
\* row[0] if row else None
ContentOfRow(row) == IF row.exists THEN row.content ELSE None

\* DocumentProcessor.get_document_content
GetDocumentContent(r) == ContentOfRow(documents[r])

(***************************************************************************)
(* The workflow: WorkflowOrchestrator.execute_document_processing_workflow *)
(***************************************************************************)
\* the request arrives with its file; _log_workflow_start inserts the
\* workflow record as running and commits
StartWorkflow(r, filenames, kinds) ==
  /\ wf[r].pc = "new"
  /\ \E f \in filenames, k \in kinds :
       wf' = [wf EXCEPT ![r].pc = "process", ![r].filename = f, ![r].kind = k]
  /\ workflow_executions' = [CommitWorkflows(r) EXCEPT ![r] = "running"]
  /\ documents' = CommitDocuments(r)
  /\ document_embeddings' = CommitEmbeddings(r)
  /\ session' = [session EXCEPT ![r] = EmptySession]
  /\ UNCHANGED <<searchVars, actionVars, statusColumn, task>>

\* a request with any file name and any file
LogWorkflowStart(r) == StartWorkflow(r, Filenames, FileKinds)

\* DocumentProcessor._store_document: the row insert names no status, so
\* the row gets the column's default, if there is such a column
StoredRow(file_type, content) ==
  [exists |-> TRUE, file_type |-> file_type, content |-> content,
   content_hash |-> ContentHash(content),
   status |-> IF statusColumn = "absent" THEN "none" ELSE statusColumn]

\* a process_document whose row insert is left uncommitted when the
\* embedding task is created
ProcessDocumentUncommitted(r) ==
  /\ wf[r].pc = "process"
  /\ LET file_type == GetFileType(wf[r].filename)
         content == ExtractText(wf[r].kind, file_type)
     IN IF file_type = "ValueError"
        THEN /\ wf' = [wf EXCEPT ![r].pc = "handler", ![r].error = "unsupported"]
             /\ UNCHANGED task
        ELSE /\ task' = [task EXCEPT ![r].pc = "begin"]
             /\ wf' = [wf EXCEPT ![r].pc = "wait",
                                 ![r].document =
                                   [id |-> r, content |-> content,
                                    content_hash |-> ContentHash(content),
                                    status |-> "processing"]]
  /\ UNCHANGED <<searchVars, actionVars, statusColumn, documents, document_embeddings,
                 workflow_executions, session>>

\* a process_document that looks the content hash up and rejects an upload
\* whose content is already stored
ProcessDocumentDeduplicating(r) ==
  /\ wf[r].pc = "process"
  /\ LET file_type == GetFileType(wf[r].filename)
         content == ExtractText(wf[r].kind, file_type)
         stored == \E o \in DOMAIN documents \ {r} :
                     /\ documents[o].exists
                     /\ documents[o].content_hash # None
                     /\ documents[o].content_hash = ContentHash(content)
     IN IF file_type = "ValueError" \/ stored
        THEN /\ wf' = [wf EXCEPT ![r].pc = "handler",
                                 ![r].error = IF stored THEN "duplicate" ELSE "unsupported"]
             /\ UNCHANGED <<documents, document_embeddings, workflow_executions,
                            session, task>>
        ELSE /\ documents' = [CommitDocuments(r) EXCEPT ![r] = StoredRow(file_type, content)]
             /\ document_embeddings' = CommitEmbeddings(r)
             /\ workflow_executions' = CommitWorkflows(r)
             /\ session' = [session EXCEPT ![r] = EmptySession]
             /\ task' = [task EXCEPT ![r].pc = "begin"]
             /\ wf' = [wf EXCEPT ![r].pc = "wait",
                                 ![r].document =
                                   [id |-> r, content |-> content,
                                    content_hash |-> ContentHash(content),
                                    status |-> "processing"]]
  /\ UNCHANGED <<searchVars, actionVars, statusColumn>>

\* DocumentProcessor.process_document: classify, extract, hash, insert and
\* commit the row, detach the embedding task, return the document
ProcessDocument(r) ==
  /\ wf[r].pc = "process"
  /\ LET file_type == GetFileType(wf[r].filename)
         content == ExtractText(wf[r].kind, file_type)
     IN IF file_type = "ValueError"
        THEN /\ wf' = [wf EXCEPT ![r].pc = "handler", ![r].error = "unsupported"]
             /\ UNCHANGED <<documents, document_embeddings, workflow_executions,
                            session, task>>
        ELSE /\ documents' = [CommitDocuments(r) EXCEPT ![r] = StoredRow(file_type, content)]
             /\ document_embeddings' = CommitEmbeddings(r)
             /\ workflow_executions' = CommitWorkflows(r)
             /\ session' = [session EXCEPT ![r] = EmptySession]
             /\ task' = [task EXCEPT ![r].pc = "begin"]
             /\ wf' = [wf EXCEPT ![r].pc = "wait",
                                 ![r].document =
                                   [id |-> r, content |-> content,
                                    content_hash |-> ContentHash(content),
                                    status |-> "processing"]]
  /\ UNCHANGED <<searchVars, actionVars, statusColumn>>

\* the helper after a status query that took d seconds: it raises what the
\* query raises, returns a terminal status, and otherwise goes to sleep
Polled(r, d) ==
  LET status == GetDocumentStatus(r)
  IN [wf EXCEPT
       ![r].elapsed = @ + d,
       ![r].polls = @ + 1,
       ![r].observed = status,
       ![r].pc = IF status \in {"db_error", "not_found"} THEN "handler"
                 ELSE IF status \in {"completed", "failed"} THEN "steps"
                 ELSE "sleep",
       ![r].error = IF status \in {"db_error", "not_found"} THEN status ELSE @,
       ![r].result = IF status \in {"db_error", "not_found"} THEN "error"
                     ELSE IF status \in {"completed", "failed"} THEN status
                     ELSE @]

\* a loop guard that is off by one: elapsed <= timeout
WaitPollOffByOne(r) ==
  /\ wf[r].pc = "wait"
  /\ Seconds(wf[r].elapsed) <= WaitTimeout
  /\ \E d \in 0..MaxPollDelay : wf' = Polled(r, d)
  /\ UNCHANGED <<searchVars, actionVars, statusColumn, documents, document_embeddings, workflow_executions,
                 session, task>>

\* _wait_for_processing, one turn of the loop whose guard holds: the status
\* query
WaitPoll(r) ==
  /\ wf[r].pc = "wait"
  /\ Seconds(wf[r].elapsed) < WaitTimeout
  /\ \E d \in 0..MaxPollDelay : wf' = Polled(r, d)
  /\ UNCHANGED <<searchVars, actionVars, statusColumn, documents, document_embeddings, workflow_executions,
                 session, task>>

\* _wait_for_processing, asyncio.sleep(2)
WaitSleep(r) ==
  /\ wf[r].pc = "sleep"
  /\ wf' = [wf EXCEPT ![r].pc = "wait", ![r].elapsed = @ + SleepInterval]
  /\ UNCHANGED <<searchVars, actionVars, statusColumn, documents, document_embeddings, workflow_executions,
                 session, task>>

\* a timeout that also cancels the embedding task
WaitTimeoutCancelsTask(r) ==
  /\ wf[r].pc = "wait"
  /\ ~(Seconds(wf[r].elapsed) < WaitTimeout)
  /\ wf' = [wf EXCEPT ![r].pc = "handler", ![r].error = "timeout",
                      ![r].result = "timeout",
                      ![r].atTimeout = documents[r].status]
  /\ task' = [task EXCEPT ![r].pc = "done"]
  /\ UNCHANGED <<searchVars, actionVars, statusColumn, documents, document_embeddings, workflow_executions,
                 session>>

\* _wait_for_processing, the loop guard fails: raise TimeoutError
WaitTimeoutError(r) ==
  /\ wf[r].pc = "wait"
  /\ ~(Seconds(wf[r].elapsed) < WaitTimeout)
  /\ wf' = [wf EXCEPT ![r].pc = "handler", ![r].error = "timeout",
                      ![r].result = "timeout",
                      ![r].atTimeout = documents[r].status]
  /\ UNCHANGED <<searchVars, actionVars, statusColumn, documents, document_embeddings, workflow_executions,
                 session, task>>

\* steps 4 to 6 of the workflow: content read, analysis, notifications;
\* any of them may raise
WorkflowSteps(r) ==
  /\ wf[r].pc = "steps"
  /\ \E ok \in BOOLEAN :
       wf' = [wf EXCEPT ![r].pc = IF ok THEN "log_completed" ELSE "handler",
                        ![r].error = IF ok THEN @ ELSE "analysis"]
  /\ UNCHANGED <<searchVars, actionVars, statusColumn, documents, document_embeddings, workflow_executions,
                 session, task>>

\* _log_workflow_completion lines 369-385: the UPDATE of the workflow
\* record, executed on the session; it changes a record that exists
LogWorkflowCompletion(r, status) ==
  session' = [session EXCEPT
                ![r].workflow =
                  IF workflow_executions[r] # "none" THEN status ELSE @]

\* _log_workflow_completion line 386: the commit, which persists everything
\* executed on the session so far; a commit that raises commits nothing
\* and the transaction is lost
CommitWorkflowLog(r, ok) ==
  /\ IF ok
     THEN /\ workflow_executions' = CommitWorkflows(r)
          /\ documents' = CommitDocuments(r)
          /\ document_embeddings' = CommitEmbeddings(r)
     ELSE UNCHANGED <<workflow_executions, documents, document_embeddings>>
  /\ session' = [session EXCEPT ![r] = EmptySession]

\* step 7: the update that logs the workflow as completed
WorkflowCompleted(r) ==
  /\ wf[r].pc = "log_completed"
  /\ LogWorkflowCompletion(r, "completed")
  /\ wf' = [wf EXCEPT ![r].pc = "commit_completed"]
  /\ UNCHANGED <<searchVars, actionVars, statusColumn, documents, document_embeddings,
                 workflow_executions, task>>

\* step 7: the commit of the log, then return; when the commit raises, the
\* except clause of the workflow is entered
WorkflowCompletedCommit(r, ok) ==
  /\ wf[r].pc = "commit_completed"
  /\ CommitWorkflowLog(r, ok)
  /\ wf' = [wf EXCEPT ![r].pc = IF ok THEN "returned" ELSE "handler",
                      ![r].error = IF ok THEN @ ELSE "commit"]
  /\ UNCHANGED <<searchVars, actionVars, statusColumn, task>>

\* the except clause: the update that logs the workflow as failed
WorkflowFailed(r) ==
  /\ wf[r].pc = "handler"
  /\ LogWorkflowCompletion(r, "failed")
  /\ wf' = [wf EXCEPT ![r].pc = "commit_failed"]
  /\ UNCHANGED <<searchVars, actionVars, statusColumn, documents, document_embeddings,
                 workflow_executions, task>>

\* the except clause: the commit of the log, then re-raise; when the commit
\* raises, its exception leaves the workflow instead
WorkflowFailedCommit(r, ok) ==
  /\ wf[r].pc = "commit_failed"
  /\ CommitWorkflowLog(r, ok)
  /\ wf' = [wf EXCEPT ![r].pc = "raised",
                      ![r].reraised = IF ok THEN wf[r].error ELSE "log_commit"]
  /\ UNCHANGED <<searchVars, actionVars, statusColumn, task>>

\* get_db: the request is over, the session is closed, which rolls back
\* what was executed on it and not committed
CloseSession(r) ==
  /\ wf[r].pc \in {"returned", "raised"}
  /\ wf' = [wf EXCEPT ![r].pc = "closed"]
  /\ session' = [session EXCEPT ![r] = EmptySession]
  /\ UNCHANGED <<searchVars, actionVars, statusColumn, documents, document_embeddings, workflow_executions, task>>

(***************************************************************************)
(* The background task: DocumentProcessor._generate_embeddings             *)
(*                                                                         *)
(* ok = FALSE is the failure of the step: the embedder or the store        *)
(* raises.  A statement that raises changes nothing; a commit that raises  *)
(* commits nothing and the transaction is lost.                            *)
(***************************************************************************)
Raise(r, next) == [task EXCEPT ![r].pc = next, ![r].raised = TRUE, ![r].fault = TRUE]

\* lines 161-166: return on empty content, else encode it
TaskEncode(r, ok) ==
  /\ task[r].pc = "begin"
  /\ task' = IF ~Truthy(wf[r].document.content) THEN [task EXCEPT ![r].pc = "done"]
             ELSE IF ok THEN [task EXCEPT ![r].pc = "insert"]
             ELSE Raise(r, "h_update")
  /\ UNCHANGED <<searchVars, actionVars, statusColumn, documents, document_embeddings, workflow_executions,
                 session, wf>>

\* lines 168-180: INSERT INTO document_embeddings
TaskInsertEmbedding(r, ok) ==
  /\ task[r].pc = "insert"
  /\ IF ok
     THEN /\ session' = [session EXCEPT ![r].embeddings = @ + 1]
          /\ task' = [task EXCEPT ![r].pc = "update", ![r].inserts = @ + 1]
     ELSE /\ task' = Raise(r, "h_update")
          /\ UNCHANGED session
  /\ UNCHANGED <<searchVars, actionVars, statusColumn, documents, document_embeddings, workflow_executions, wf>>

\* lines 182-189: UPDATE documents SET status = 'completed'; the statement
\* raises when the table has no status column
TaskUpdateCompleted(r, ok) ==
  /\ task[r].pc = "update"
  /\ IF statusColumn = "absent"
     THEN /\ task' = [task EXCEPT ![r].pc = "h_update", ![r].raised = TRUE]
          /\ UNCHANGED session
     ELSE IF ok
     THEN /\ session' = [session EXCEPT ![r].status = "completed"]
          /\ task' = [task EXCEPT ![r].pc = "commit", ![r].updates = @ + 1]
     ELSE /\ task' = Raise(r, "h_update")
          /\ UNCHANGED session
  /\ UNCHANGED <<searchVars, actionVars, statusColumn, documents, document_embeddings, workflow_executions, wf>>

\* line 190: commit
TaskCommit(r, ok) ==
  /\ task[r].pc = "commit"
  /\ IF ok
     THEN /\ documents' = CommitDocuments(r)
          /\ document_embeddings' = CommitEmbeddings(r)
          /\ workflow_executions' = CommitWorkflows(r)
          /\ task' = [task EXCEPT ![r].pc = "done"]
     ELSE /\ task' = Raise(r, "h_update")
          /\ UNCHANGED <<documents, document_embeddings, workflow_executions>>
  /\ session' = [session EXCEPT ![r] = EmptySession]
  /\ UNCHANGED <<searchVars, actionVars, statusColumn, wf>>

\* lines 192-201, the except clause: UPDATE documents SET status = 'failed';
\* when this raises too, the bare except swallows it (lines 203-204)
TaskUpdateFailed(r, ok) ==
  /\ task[r].pc = "h_update"
  /\ IF statusColumn # "absent" /\ ok
     THEN /\ session' = [session EXCEPT ![r].status = "failed"]
          /\ task' = [task EXCEPT ![r].pc = "h_commit", ![r].updates = @ + 1]
     ELSE /\ task' = [task EXCEPT ![r].pc = "done",
                                  ![r].fault = @ \/ statusColumn # "absent"]
          /\ UNCHANGED session
  /\ UNCHANGED <<searchVars, actionVars, statusColumn, documents, document_embeddings, workflow_executions, wf>>

\* line 202: the except clause's commit; swallowed when it raises
TaskCommitFailed(r, ok) ==
  /\ task[r].pc = "h_commit"
  /\ IF ok
     THEN /\ documents' = CommitDocuments(r)
          /\ document_embeddings' = CommitEmbeddings(r)
          /\ workflow_executions' = CommitWorkflows(r)
          /\ task' = [task EXCEPT ![r].pc = "done"]
     ELSE /\ task' = [task EXCEPT ![r].pc = "done", ![r].fault = TRUE]
          /\ UNCHANGED <<documents, document_embeddings, workflow_executions>>
  /\ session' = [session EXCEPT ![r] = EmptySession]
  /\ UNCHANGED <<searchVars, actionVars, statusColumn, wf>>

(***************************************************************************)
(* Specification                                                           *)
(***************************************************************************)
Next ==
  \E r \in Reqs :
    \/ LogWorkflowStart(r)
    \/ ProcessDocument(r)
    \/ WaitPoll(r)
    \/ WaitSleep(r)
    \/ WaitTimeoutError(r)
    \/ WorkflowSteps(r)
    \/ WorkflowCompleted(r)
    \/ WorkflowFailed(r)
    \/ CloseSession(r)
    \/ \E ok \in BOOLEAN :
         \/ WorkflowCompletedCommit(r, ok)
         \/ WorkflowFailedCommit(r, ok)
         \/ TaskEncode(r, ok)
         \/ TaskInsertEmbedding(r, ok)
         \/ TaskUpdateCompleted(r, ok)
         \/ TaskCommit(r, ok)
         \/ TaskUpdateFailed(r, ok)
         \/ TaskCommitFailed(r, ok)

Spec == Init /\ [][Next]_vars

(***************************************************************************)
(* Properties                                                              *)
(***************************************************************************)
\* process_document has returned a document to the request's workflow
Accepted(r) == wf[r].document.id # "none"

\* process_document has run, whatever its outcome
Ingested(r) == wf[r].pc \notin {"new", "process"}

C2_ProcessingUntilTaskDone ==
  \A r \in Reqs :
    (Accepted(r) /\ task[r].pc # "done")
      => /\ documents[r].exists
         /\ documents[r].status = "processing"
         /\ GetDocumentStatus(r) = "processing"

\* C3: a file name whose extension is not an allowed one makes
\* process_document raise to its caller and leaves no document row, no
\* embedding row, executed or committed, and no background task
C3_UnsupportedLeavesNoTrace ==
  \A r \in Reqs :
    (Ingested(r) /\ Lower(Suffix(wf[r].filename)) \notin ALLOWED_EXTENSIONS)
      => /\ wf[r].error = "unsupported"
         /\ ~Accepted(r)
         /\ documents[r] = NoRow
         /\ document_embeddings[r] = 0
         /\ session[r].embeddings = 0
         /\ session[r].status = "none"
         /\ task[r].pc = "none"

C3_Witness ==
  \E r \in Reqs :
    /\ wf[r].pc = "closed"
    /\ wf[r].filename = <<"a", ".", "t", "x", "t", ".", "b", "a", "k">>
    /\ wf[r].error = "unsupported"

\* C4: once the background task of an accepted upload with non-empty
\* content has run to its end without the embedder or the store failing,
\* the document is completed and has an embedding row
C4_CompletedWithEmbedding ==
  \A r \in Reqs :
    (Accepted(r) /\ Truthy(documents[r].content)
       /\ task[r].pc = "done" /\ ~task[r].fault)
      => /\ documents[r].status = "completed"
         /\ document_embeddings[r] >= 1

\* C5: once the background task of an accepted upload with null or empty
\* content has run to its end, no embedding was inserted and the document
\* is completed
C5_EmptyContentCompleted ==
  \A r \in Reqs :
    (Accepted(r) /\ ~Truthy(documents[r].content) /\ task[r].pc = "done")
      => /\ document_embeddings[r] = 0
         /\ documents[r].status = "completed"

\* C6: when extraction fails for a supported file type, process_document
\* does not raise: it commits a row with null content and null hash and
\* returns the created document
C6_ExtractionFailureDegrades ==
  \A r \in Reqs :
    (Ingested(r) /\ Lower(Suffix(wf[r].filename)) \in ALLOWED_EXTENSIONS
       /\ wf[r].kind = "corrupt")
      => /\ Accepted(r)
         /\ wf[r].error # "unsupported"
         /\ wf[r].document.content = None
         /\ wf[r].document.content_hash = None
         /\ wf[r].document.status = "processing"
         /\ documents[r].exists
         /\ documents[r].content = None
         /\ documents[r].content_hash = None

C6_Witness ==
  \E r \in Reqs :
    /\ wf[r].kind = "corrupt"
    /\ Accepted(r)
    /\ documents[r].exists
    /\ documents[r].file_type = "jpeg"

\* C7: once a background task in which a step raised has run to its end,
\* the document's persisted status is failed, and the exception did not
\* reach the caller
C7_RaisedTaskMarksFailed ==
  \A r \in Reqs :
    (task[r].pc = "done" /\ task[r].raised)
      => /\ documents[r].status = "failed"
         /\ wf[r].document.status = "processing"

C9_PollingHelper ==
  /\ [](\A r \in Reqs :
          /\ wf[r].result \in Terminal => wf[r].observed = wf[r].result
          /\ wf[r].result = "timeout"
               => /\ wf[r].observed \notin Terminal
                  /\ Seconds(wf[r].elapsed) >= WaitTimeout
                  /\ wf[r].error = "timeout"
          /\ wf[r].pc \in {"wait", "sleep"}
               => /\ wf[r].result = "none"
                  /\ wf[r].observed \notin Terminal)
  /\ [][\A r \in Reqs :
          /\ (wf[r].pc = "sleep" /\ wf'[r] # wf[r])
               => /\ wf'[r].pc = "wait"
                  /\ wf'[r].elapsed = wf[r].elapsed + 2
                  /\ wf'[r].polls = wf[r].polls
          /\ (wf[r].pc = "wait" /\ wf'[r] # wf[r])
               => IF Seconds(wf[r].elapsed) >= WaitTimeout
                  THEN /\ wf'[r].result = "timeout"
                       /\ wf'[r].polls = wf[r].polls
                  ELSE /\ wf'[r].polls = wf[r].polls + 1
                       /\ wf'[r].result # "timeout"
                       /\ wf'[r].observed \in Terminal
                            => /\ wf'[r].result = wf'[r].observed
                               /\ wf'[r].pc \notin {"wait", "sleep"}
                       /\ wf'[r].observed = "processing"
                            => wf'[r].pc = "sleep"]_vars

C9_Witness ==
  \E r \in Reqs :
    /\ wf[r].result = "failed"
    /\ wf[r].polls = 3
    /\ wf[r].elapsed >= 4

One == 10

\* Python's s[:n], for n >= 0
Take(s, n) == SubSeq(s, 1, IF n < Len(s) THEN n ELSE Len(s))

\* the orders in which the rows of a set of documents may come
Perms(S) ==
  {p \in [1..Cardinality(S) -> S] : \A i, j \in 1..Cardinality(S) : i # j => p[i] # p[j]}

\* a row of search_similar_documents: id, filename, content, embedding,
\* distance
SimilarRow(d) == <<d, "filename", "content", "embedding", corpus.distance[d]>>

\* a search_similar_documents whose WHERE clause is distance <= threshold
SearchSimilarDocumentsInclusive(limit, threshold) ==
  LET joined == {d \in corpus.embedded : corpus.distance[d] <= threshold}
      ordered == {p \in Perms(joined) :
                    \A i, j \in 1..Len(p) :
                      i < j => corpus.distance[p[i]] <= corpus.distance[p[j]]}
  IN {[i \in 1..Len(Take(p, limit)) |-> SimilarRow(p[i])] : p \in ordered}

\* search_similar_documents: documents JOIN document_embeddings WHERE
\* distance < threshold ORDER BY distance ASC LIMIT limit; the possible
\* values of fetchall()
SearchSimilarDocuments(limit, threshold) ==
  LET joined == {d \in corpus.embedded : corpus.distance[d] < threshold}
      ordered == {p \in Perms(joined) :
                    \A i, j \in 1..Len(p) :
                      i < j => corpus.distance[p[i]] <= corpus.distance[p[j]]}
  IN {[i \in 1..Len(Take(p, limit)) |-> SimilarRow(p[i])] : p \in ordered}

\* a row of full_text_search: id, filename, content, relevance_score
FullTextRow(d) == <<d, "filename", "content", corpus.relevance[d]>>

\* a full_text_search that orders by relevance_score without DESC
FullTextSearchAscending(limit) ==
  LET matching == {d \in Docs : corpus.relevance[d] # 0}
      ordered == {p \in Perms(matching) :
                    \A i, j \in 1..Len(p) :
                      i < j => corpus.relevance[p[i]] <= corpus.relevance[p[j]]}
  IN {[i \in 1..Len(Take(p, limit)) |-> FullTextRow(p[i])] : p \in ordered}

\* full_text_search: documents WHERE MATCH(content) AGAINST(query) ORDER BY
\* relevance_score DESC LIMIT limit; the possible values of fetchall()
FullTextSearch(limit) ==
  LET matching == {d \in Docs : corpus.relevance[d] # 0}
      ordered == {p \in Perms(matching) :
                    \A i, j \in 1..Len(p) :
                      i < j => corpus.relevance[p[i]] >= corpus.relevance[p[j]]}
  IN {[i \in 1..Len(Take(p, limit)) |-> FullTextRow(p[i])] : p \in ordered}

(***************************************************************************)
(* The retrieval engine: search results                                    *)
(***************************************************************************)
\* DocumentSearchResult declares created_at: datetime = Field(...), and
\* every place that builds one passes None, since no row has a sixth
\* (fifth) column.  Both models are kept: the declared one ("required"),
\* whose validation rejects None, and the one the builders assume
\* ("optional"), in which the result carries None
CreatedAtFields == {"required", "optional"}

\* the fields of a DocumentSearchResult
DocumentSearchResult(id, filename, content, similarity_score, relevance_score, created_at) ==
  [id |-> id, filename |-> filename, content |-> content,
   similarity_score |-> similarity_score, relevance_score |-> relevance_score,
   created_at |-> created_at]

\* the validation of the model: created_at must be a datetime
Valid(result) == createdAtField = "optional" \/ result.created_at # Nothing

AllValid(results) == \A i \in 1..Len(results) : Valid(results[i])

\* a result list whose similarity is clamped to [0, 1]
VectorResultsClamped(similar_docs) ==
  [i \in 1..Len(similar_docs) |->
     LET doc == similar_docs[i]
         similarity == One - doc[5]
     IN DocumentSearchResult(
          doc[1], doc[2], doc[3],
          Some(IF similarity < 0 THEN 0 ELSE similarity),
          Nothing,
          IF Len(doc) > 5 THEN Some(doc[6]) ELSE Nothing)]

\* _vector_search lines 158-166 (and find_similar_documents lines 127-135):
\* one result per row, similarity_score = 1 - doc[4], created_at = doc[5]
\* if the row has one (Python counts the columns from 0)
VectorResults(similar_docs) ==
  [i \in 1..Len(similar_docs) |->
     LET doc == similar_docs[i]
     IN DocumentSearchResult(
          doc[1], doc[2], doc[3],
          Some(One - doc[5]),
          Nothing,
          IF Len(doc) > 5 THEN Some(doc[6]) ELSE Nothing)]

\* _fulltext_search lines 175-183: relevance_score = doc[3], created_at =
\* doc[4] if the row has one
FulltextResults(search_results) ==
  [i \in 1..Len(search_results) |->
     LET doc == search_results[i]
     IN DocumentSearchResult(
          doc[1], doc[2], doc[3],
          Nothing,
          Some(doc[4]),
          IF Len(doc) > 4 THEN Some(doc[5]) ELSE Nothing)]

(***************************************************************************)
(* The retrieval engine: hybrid fusion (_hybrid_search lines 196-227)      *)
(***************************************************************************)
\* the weights of line 220, 0.6 and 0.4, in tenths
VectorWeight == 6

FulltextWeight == 4

\* `score or 0` of an Optional[float]
OrZero(score) == IF score = Nothing THEN 0 ELSE score[1]

\* the ids of combined_results, a dict kept as the sequence of its entries
\* in insertion order
Keys(combined) == {combined[i].result.id : i \in 1..Len(combined)}

\* combined_results[result.id] = entry: a new key is appended, an existing
\* key keeps its place
Put(combined, entry) ==
  IF entry.result.id \in Keys(combined)
  THEN [i \in 1..Len(combined) |->
          IF combined[i].result.id = entry.result.id THEN entry ELSE combined[i]]
  ELSE Append(combined, entry)

\* lines 199-204: the loop over the vector results
RECURSIVE AddVectorResults(_, _)
AddVectorResults(combined, vector_results) ==
  IF vector_results = <<>> THEN combined
  ELSE LET result == Head(vector_results)
       IN AddVectorResults(
            Put(combined, [result |-> result,
                           vector_score |-> OrZero(result.similarity_score),
                           fulltext_score |-> 0]),
            Tail(vector_results))

\* a loop over the full-text results that replaces the entry of a document
\* the vector search found too
RECURSIVE AddFulltextResultsOverwriting(_, _)
AddFulltextResultsOverwriting(combined, fulltext_results) ==
  IF fulltext_results = <<>> THEN combined
  ELSE LET result == Head(fulltext_results)
       IN AddFulltextResultsOverwriting(
            Put(combined, [result |-> result, vector_score |-> 0,
                           fulltext_score |-> OrZero(result.relevance_score)]),
            Tail(fulltext_results))

\* lines 207-215: the loop over the full-text results
RECURSIVE AddFulltextResults(_, _)
AddFulltextResults(combined, fulltext_results) ==
  IF fulltext_results = <<>> THEN combined
  ELSE LET result == Head(fulltext_results)
       IN AddFulltextResults(
            IF result.id \in Keys(combined)
            THEN [i \in 1..Len(combined) |->
                    IF combined[i].result.id = result.id
                    THEN [combined[i] EXCEPT
                            !.fulltext_score = OrZero(result.relevance_score)]
                    ELSE combined[i]]
            ELSE Append(combined, [result |-> result, vector_score |-> 0,
                                   fulltext_score |-> OrZero(result.relevance_score)]),
            Tail(fulltext_results))

\* line 220, in tenths
HybridScore(scores) ==
  (scores.vector_score * VectorWeight + scores.fulltext_score * FulltextWeight) \div One

\* lines 218-223: the results with their similarity_score overwritten, each
\* paired with its hybrid score, in the dict's order
HybridResults(combined) ==
  [i \in 1..Len(combined) |->
     <<[combined[i].result EXCEPT !.similarity_score = Some(HybridScore(combined[i]))],
       HybridScore(combined[i])>>]

\* the place of x in a list sorted by descending score: before the elements
\* of equal score
InsertBeforeEqual(sorted, x) ==
  LET before == {i \in 1..Len(sorted) : sorted[i][2] > x[2]}
      n == Cardinality(before)
  IN SubSeq(sorted, 1, n) \o <<x>> \o SubSeq(sorted, n + 1, Len(sorted))

\* the place of x, which came after them in the list, among elements
\* sorted by descending score: behind the elements of equal score
InsertDescending(sorted, x) ==
  LET before == {i \in 1..Len(sorted) : sorted[i][2] >= x[2]}
      n == Cardinality(before)
  IN SubSeq(sorted, 1, n) \o <<x>> \o SubSeq(sorted, n + 1, Len(sorted))

\* line 226: list.sort(key = hybrid score, reverse = True), which is stable
RECURSIVE SortDescending(_)
SortDescending(hybrid_results) ==
  IF hybrid_results = <<>> THEN <<>>
  ELSE InsertDescending(
         SortDescending(SubSeq(hybrid_results, 1, Len(hybrid_results) - 1)),
         hybrid_results[Len(hybrid_results)])

\* lines 196-226: combine, score and sort; the fused results of all the
\* documents of the two lists
FusedResults(vector_results, fulltext_results) ==
  LET combined == AddFulltextResults(AddVectorResults(<<>>, vector_results),
                                     fulltext_results)
      hybrid_results == SortDescending(HybridResults(combined))
  IN [i \in 1..Len(hybrid_results) |-> hybrid_results[i][1]]

\* a fusion that returns every fused result
FusionUntruncated(vector_results, fulltext_results, limit) ==
  FusedResults(vector_results, fulltext_results)

\* lines 196-227: the first `limit` fused results
Fusion(vector_results, fulltext_results, limit) ==
  Take(FusedResults(vector_results, fulltext_results), limit)

\* line 222 assigns to the result objects the two lists hold: a list after
\* the fusion, given the fused results of all documents
AfterFusion(results, fused) ==
  [i \in 1..Len(results) |->
     LET same == {j \in 1..Len(fused) :
                    /\ fused[j].id = results[i].id
                    /\ fused[j].relevance_score = results[i].relevance_score}
     IN IF same = {} THEN results[i] ELSE fused[CHOOSE j \in same : TRUE]]

(***************************************************************************)
(* The retrieval engine: the post-filters                                  *)
(***************************************************************************)
\* the elements of a list
Range(s) == {s[i] : i \in 1..Len(s)}

\* getattr: a DocumentSearchResult has the fields its class declares
HasAttr(result, name) == name \in DOMAIN result

\* line 40 reads r.file_type of every result: AttributeError, since
\* DocumentSearchResult declares no file_type
FileTypeFilterRaises(results, file_types) ==
  /\ file_types # <<>>
  /\ \E i \in 1..Len(results) : ~HasAttr(results[i], "file_type")

\* lines 39-40
FilterByFileTypes(results, file_types) ==
  IF file_types # <<>>
  THEN SelectSeq(results,
                 LAMBDA r : HasAttr(r, "file_type") /\ r.file_type \in Range(file_types))
  ELSE results

\* a date filter that keeps the results without a creation date
FilterByDateKeepingUndated(results, date_from, date_to) ==
  SelectSeq(results,
            LAMBDA r :
              r.created_at # Nothing =>
                /\ ~(date_from # Nothing /\ r.created_at[1] < date_from[1])
                /\ ~(date_to # Nothing /\ r.created_at[1] > date_to[1]))

\* whether _filter_by_date skips a result (lines 234-238)
OutOfRange(r, date_from, date_to) ==
  \/ r.created_at = Nothing
  \/ date_from # Nothing /\ r.created_at[1] < date_from[1]
  \/ date_to # Nothing /\ r.created_at[1] > date_to[1]

\* the list after `for r in results: if <skipped>: results.remove(r)` has
\* run from position i: the loop misses the element after each removal
RECURSIVE RemoveWhileIterating(_, _, _, _)
RemoveWhileIterating(results, i, date_from, date_to) ==
  IF i > Len(results) THEN results
  ELSE IF OutOfRange(results[i], date_from, date_to)
  THEN RemoveWhileIterating(
         SubSeq(results, 1, i - 1) \o SubSeq(results, i + 1, Len(results)),
         i + 1, date_from, date_to)
  ELSE RemoveWhileIterating(results, i + 1, date_from, date_to)

\* a date filter that removes from the list it iterates over
FilterByDateInPlace(results, date_from, date_to) ==
  RemoveWhileIterating(results, 1, date_from, date_to)

\* _filter_by_date
FilterByDate(results, date_from, date_to) ==
  SelectSeq(results,
            LAMBDA r :
              /\ r.created_at # Nothing
              /\ ~(date_from # Nothing /\ r.created_at[1] < date_from[1])
              /\ ~(date_to # Nothing /\ r.created_at[1] > date_to[1]))

(***************************************************************************)
(* The retrieval engine: the handlers                                      *)
(*                                                                         *)
(* One action per sub-search, one for the fusion, one for the filters and  *)
(* one for the audit log and the response.  An exception ends the request: *)
(* search_documents turns it into a 500 response (lines 59-60).            *)
(***************************************************************************)
ingestVars ==
  <<statusColumn, documents, document_embeddings, workflow_executions,
    session, wf, task>>

\* the handler ends with an error response
HttpError(status_code, error) ==
  [search EXCEPT !.pc = "done", !.status_code = status_code, !.error = error]

\* a _hybrid_search that asks its sub-searches for limit candidates
CandidateLimitNoOverfetch(search_type, limit) == limit

\* the limit a sub-search is called with: limit * 2 by _hybrid_search (lines
\* 190 and 193), the request's limit by search_documents (lines 30 and 32)
CandidateLimit(search_type, limit) ==
  IF search_type = "hybrid" THEN limit * 2 ELSE limit

\* the query vector of a vector search: embedding_model.encode(query)
EncodedQuery(query) == <<"encode", query>>

\* the query vector of a similar-to-document search: the embedding_vector
\* stored for the reference document, read back with eval
StoredEmbedding(document_id) == <<"embedding", document_id>>

\* _vector_search, called by search_documents (line 30) with the limit and
\* by _hybrid_search (line 190) with twice the limit
VectorSearch ==
  /\ search.pc = "start"
  /\ request.endpoint = "search"
  /\ LowerSearchType(request.search_type) \in {"vector", "hybrid"}
  /\ LET hybrid == LowerSearchType(request.search_type) = "hybrid"
         limit == CandidateLimit(LowerSearchType(request.search_type), request.limit)
     IN \E similar_docs \in SearchSimilarDocuments(limit, request.threshold) :
          LET results == VectorResults(similar_docs)
          IN search' =
               IF AllValid(results)
               THEN [search EXCEPT !.similar_docs = similar_docs,
                                   !.query_vector = EncodedQuery(request.query),
                                   !.index_queries = @ + 1,
                                   !.vector_results = results,
                                   !.mode_results = IF hybrid THEN @ ELSE results,
                                   !.results = IF hybrid THEN @ ELSE results,
                                   !.pc = IF hybrid THEN "fulltext" ELSE "filter"]
               ELSE [HttpError(500, "ValidationError") EXCEPT
                       !.similar_docs = similar_docs,
                       !.query_vector = EncodedQuery(request.query),
                       !.index_queries = @ + 1]
  /\ UNCHANGED <<ingestVars, actionVars, createdAtField, corpus, request, search_logs>>

\* _fulltext_search, called by search_documents (line 32) with the limit
\* and by _hybrid_search (line 193) with twice the limit
FulltextSearch ==
  /\ \/ search.pc = "start" /\ request.endpoint = "search"
          /\ LowerSearchType(request.search_type) = "fulltext"
     \/ search.pc = "fulltext"
  /\ LET hybrid == LowerSearchType(request.search_type) = "hybrid"
         limit == CandidateLimit(LowerSearchType(request.search_type), request.limit)
     IN \E search_results \in FullTextSearch(limit) :
          LET results == FulltextResults(search_results)
          IN search' =
               IF AllValid(results)
               THEN [search EXCEPT !.search_results = search_results,
                                   !.fulltext_results = results,
                                   !.mode_results = IF hybrid THEN @ ELSE results,
                                   !.results = IF hybrid THEN @ ELSE results,
                                   !.pc = IF hybrid THEN "fuse" ELSE "filter"]
               ELSE [HttpError(500, "ValidationError") EXCEPT
                       !.search_results = search_results]
  /\ UNCHANGED <<ingestVars, actionVars, createdAtField, corpus, request, search_logs>>

\* _hybrid_search lines 196-227
HybridFusion ==
  /\ search.pc = "fuse"
  /\ LET results == Fusion(search.vector_results, search.fulltext_results, request.limit)
         fused == FusedResults(search.vector_results, search.fulltext_results)
     IN search' = [search EXCEPT
                     !.vector_results = AfterFusion(@, fused),
                     !.fulltext_results = AfterFusion(@, fused),
                     !.mode_results = results,
                     !.results = results,
                     !.pc = "filter"]
  /\ UNCHANGED <<ingestVars, actionVars, createdAtField, corpus, request, search_logs>>

\* search_documents when the HTTPException of line 36 is caught by except
\* Exception and answered as 500
InvalidSearchTypeRewrapped == HttpError(500, "Invalid search type")

\* search_documents lines 35-36 and 57-58: the HTTPException of the else
\* branch is raised again as it is
InvalidSearchType == HttpError(400, "Invalid search type")

\* search_documents lines 27-36: a search type that, lowered, names none of
\* the three searches
RejectSearchType ==
  /\ search.pc = "start"
  /\ request.endpoint = "search"
  /\ LowerSearchType(request.search_type) \notin SearchTypes
  /\ search' = InvalidSearchType
  /\ UNCHANGED <<ingestVars, actionVars, createdAtField, corpus, request, search_logs>>

\* search_documents lines 38-43: the file-type filter, then the date filter
PostFilters ==
  /\ search.pc = "filter"
  /\ search' =
       IF FileTypeFilterRaises(search.results, request.file_types)
       THEN HttpError(500, "AttributeError")
       ELSE LET by_type == FilterByFileTypes(search.results, request.file_types)
            IN [search EXCEPT
                  !.results =
                    IF request.date_from # Nothing \/ request.date_to # Nothing
                    THEN FilterByDate(by_type, request.date_from, request.date_to)
                    ELSE by_type,
                  !.pc = "log"]
  /\ UNCHANGED <<ingestVars, actionVars, createdAtField, corpus, request, search_logs>>

\* the text _log_search assigns to its parameter query at line 247, before
\* it binds "query": query at line 254
LogInsertStatement ==
  "INSERT INTO search_logs (id, query, search_type, results_count, execution_time_ms) VALUES (:id, :query, :search_type, :results_count, :execution_time_ms)"

\* the row _log_search inserts: the local name query holds the statement
\* by the time the parameters are bound
LogSearch(query, search_type, results_count) ==
  [query |-> LogInsertStatement, search_type |-> search_type,
   results_count |-> results_count]

\* search_documents when _log_search lets an exception out
AfterLogPropagating(ok) ==
  IF ok
  THEN [search EXCEPT !.response = Take(search.results, request.limit),
                      !.total_count = Len(search.results),
                      !.status_code = 200,
                      !.pc = "done"]
  ELSE [HttpError(500, "log") EXCEPT !.log_raised = TRUE]

\* search_documents lines 49-55 after _log_search, which catches what its
\* insert or its commit raises (lines 259-261)
AfterLog(ok) ==
  [search EXCEPT !.log_raised = ~ok,
                 !.response = Take(search.results, request.limit),
                 !.total_count = Len(search.results),
                 !.status_code = 200,
                 !.pc = "done"]

\* search_documents lines 45-55: _log_search, whose insert and commit reach
\* the store (ok) or raise, and the response
Respond ==
  /\ search.pc = "log"
  /\ \E ok \in BOOLEAN :
       /\ search_logs' =
            IF ok
            THEN Append(search_logs,
                        LogSearch(request.query, LowerSearchType(request.search_type),
                                  Len(search.results)))
            ELSE search_logs
       /\ search' = AfterLog(ok)
  /\ UNCHANGED <<ingestVars, actionVars, createdAtField, corpus, request>>

\* vector_search (GET /search/vector): the results of _vector_search, or 500
VectorEndpoint ==
  /\ search.pc = "start"
  /\ request.endpoint = "vector"
  /\ \E similar_docs \in SearchSimilarDocuments(request.limit, request.threshold) :
       LET results == VectorResults(similar_docs)
           queried == [search EXCEPT !.similar_docs = similar_docs,
                                     !.query_vector = EncodedQuery(request.query),
                                     !.index_queries = @ + 1]
       IN search' =
            IF AllValid(results)
            THEN [queried EXCEPT !.vector_results = results,
                                 !.mode_results = results,
                                 !.results = results,
                                 !.response = results,
                                 !.total_count = Len(results),
                                 !.status_code = 200,
                                 !.pc = "done"]
            ELSE [queried EXCEPT !.pc = "done", !.status_code = 500,
                                 !.error = "ValidationError"]
  /\ UNCHANGED <<ingestVars, actionVars, createdAtField, corpus, request, search_logs>>

\* fulltext_search (GET /search/fulltext): the results of _fulltext_search,
\* or 500
FulltextEndpoint ==
  /\ search.pc = "start"
  /\ request.endpoint = "fulltext"
  /\ \E search_results \in FullTextSearch(request.limit) :
       LET results == FulltextResults(search_results)
       IN search' =
            IF AllValid(results)
            THEN [search EXCEPT !.search_results = search_results,
                                !.fulltext_results = results,
                                !.mode_results = results,
                                !.results = results,
                                !.response = results,
                                !.total_count = Len(results),
                                !.status_code = 200,
                                !.pc = "done"]
            ELSE [HttpError(500, "ValidationError") EXCEPT
                    !.search_results = search_results]
  /\ UNCHANGED <<ingestVars, actionVars, createdAtField, corpus, request, search_logs>>

\* find_similar_documents when the HTTPException of line 118 is caught by
\* except Exception and answered as 500
SimilarNotFoundRewrapped == HttpError(500, "not_found")

\* find_similar_documents lines 117-118 and 144-145: no embedding row for
\* the reference document; the HTTPException is raised again as it is
SimilarNotFound == HttpError(404, "not_found")

\* find_similar_documents: 404 when the reference document has no
\* embedding row, else the rows nearest to its stored embedding
FindSimilarDocuments ==
  /\ search.pc = "start"
  /\ request.endpoint = "similar"
  /\ IF request.document_id \notin corpus.embedded
     THEN search' = SimilarNotFound
     ELSE \E similar_docs \in SearchSimilarDocuments(request.limit, request.threshold) :
            LET results == VectorResults(similar_docs)
                queried == [search EXCEPT
                              !.similar_docs = similar_docs,
                              !.query_vector = StoredEmbedding(request.document_id),
                              !.index_queries = @ + 1]
            IN search' =
                 IF AllValid(results)
                 THEN [queried EXCEPT !.vector_results = results,
                                      !.mode_results = results,
                                      !.results = results,
                                      !.response = results,
                                      !.total_count = Len(results),
                                      !.status_code = 200,
                                      !.pc = "done"]
                 ELSE [queried EXCEPT !.pc = "done", !.status_code = 500,
                                      !.error = "ValidationError"]
  /\ UNCHANGED <<ingestVars, actionVars, createdAtField, corpus, request, search_logs>>

\* a search request meets a corpus; for the similar-to-document endpoint
\* the query vector is the reference document's embedding, at distance 0
\* from itself
SearchInit ==
  /\ statusColumn = "absent"
  /\ documents = [r \in Reqs |-> NoRow]
  /\ document_embeddings = [r \in Reqs |-> 0]
  /\ workflow_executions = [r \in Reqs |-> "none"]
  /\ session = [r \in Reqs |-> EmptySession]
  /\ wf = [r \in Reqs |-> NewWorkflow]
  /\ task = [r \in Reqs |-> NoTask]
  /\ createdAtField \in CreatedAtFields
  /\ corpus \in Corpora
  /\ request \in SearchRequests
  /\ (request.endpoint = "similar" /\ request.document_id \in corpus.embedded)
       => corpus.distance[request.document_id] = 0
  /\ search = [IdleSearch EXCEPT !.pc = "start"]
  /\ search_logs = <<>>
  /\ action = NoAction
  /\ external_actions = <<>>

SearchNext ==
  \/ RejectSearchType
  \/ VectorSearch
  \/ FulltextSearch
  \/ HybridFusion
  \/ PostFilters
  \/ Respond
  \/ VectorEndpoint
  \/ FulltextEndpoint
  \/ FindSimilarDocuments

SearchSpec == SearchInit /\ [][SearchNext]_vars

(***************************************************************************)
(* Properties of the retrieval engine                                      *)
(***************************************************************************)
\* the documents of a list of rows or of results
RowIds(rows) == {rows[i][1] : i \in 1..Len(rows)}

ResultIds(results) == {results[i].id : i \in 1..Len(results)}

\* the request is a hybrid search whose fusion has run
Fused ==
  /\ LowerSearchType(request.search_type) = "hybrid"
  /\ search.pc \in {"filter", "log", "done"}
  /\ search.error \notin {"ValidationError"}

\* the vector similarity and the full-text relevance the two candidate
\* lists gave a document, 0 for a list that does not hold it
CandidateVectorScore(d) ==
  IF d \in RowIds(search.similar_docs) THEN One - corpus.distance[d] ELSE 0

CandidateFulltextScore(d) ==
  IF d \in RowIds(search.search_results) THEN corpus.relevance[d] ELSE 0

\* C11: every row the store returns to vector search and to similar-to-
\* document search, every result built from the rows and every result of
\* the response has a distance to the query vector strictly below the
\* threshold
C11_BelowThreshold ==
  /\ \A i \in 1..Len(search.similar_docs) :
       LET doc == search.similar_docs[i]
       IN /\ doc[1] \in corpus.embedded
          /\ doc[5] = corpus.distance[doc[1]]
          /\ doc[5] < request.threshold
  /\ \A d \in ResultIds(search.vector_results) :
       d \in corpus.embedded /\ corpus.distance[d] < request.threshold
  /\ LowerSearchType(request.search_type) = "vector"
       => \A d \in ResultIds(search.response) :
            d \in corpus.embedded /\ corpus.distance[d] < request.threshold

\* a vector search answered with fewer results than the limit allows while
\* a document lies exactly at the threshold
C11_Witness ==
  /\ request.endpoint = "search"
  /\ LowerSearchType(request.search_type) = "vector"
  /\ search.status_code = 200
  /\ search.response # <<>>
  /\ Len(search.response) < request.limit
  /\ \E d \in corpus.embedded : corpus.distance[d] = request.threshold

\* C12: after the fusion the similarity field s of every document of the
\* two candidate lists satisfies s = 0.6 v + 0.4 f, v and f being the scores
\* the lists gave it and 0 for the list that does not hold it; this holds
\* for the returned results and for the results the truncation drops
C12_FusedScore ==
  Fused =>
    /\ \A i \in 1..Len(search.mode_results) :
         LET result == search.mode_results[i]
         IN /\ result.id \in RowIds(search.similar_docs) \cup RowIds(search.search_results)
            /\ result.similarity_score # Nothing
            /\ 10 * result.similarity_score[1] =
                 6 * CandidateVectorScore(result.id) + 4 * CandidateFulltextScore(result.id)
    /\ \A d \in RowIds(search.similar_docs) \cup RowIds(search.search_results) :
         \E result \in Range(search.vector_results) \cup Range(search.fulltext_results) :
           /\ result.id = d
           /\ result.similarity_score # Nothing
           /\ 10 * result.similarity_score[1] =
                6 * CandidateVectorScore(d) + 4 * CandidateFulltextScore(d)

\* a hybrid search returned a document found by both searches, with a
\* vector term and a full-text term, and one found by full-text search only
C12_Witness ==
  /\ Fused
  /\ search.status_code = 200
  /\ \E d \in ResultIds(search.response) :
       /\ d \in RowIds(search.similar_docs) /\ d \in RowIds(search.search_results)
       /\ CandidateVectorScore(d) # 0
  /\ \E d \in ResultIds(search.response) : d \notin RowIds(search.similar_docs)

\* C13: _hybrid_search returns at most limit results, and so does the
\* response
C13_HybridAtMostLimit ==
  Fused =>
    /\ Len(search.mode_results) <= request.limit
    /\ Len(search.response) <= request.limit

\* both sub-searches returned 2 * limit candidates and the fusion returned
\* limit of them
C13_Witness ==
  /\ Fused
  /\ request.limit > 0
  /\ Len(search.similar_docs) = 2 * request.limit
  /\ Len(search.search_results) = 2 * request.limit
  /\ Cardinality(RowIds(search.similar_docs) \cup RowIds(search.search_results))
       > request.limit
  /\ Len(search.mode_results) = request.limit

\* the place of a document in the order of insertion: the vector list's
\* documents in the list's order, then the documents only the full-text
\* list holds, in that list's order
InsertionIndex(d) ==
  IF d \in RowIds(search.similar_docs)
  THEN CHOOSE i \in 1..Len(search.similar_docs) : search.similar_docs[i][1] = d
  ELSE Len(search.similar_docs)
         + (CHOOSE i \in 1..Len(search.search_results) : search.search_results[i][1] = d)

\* ten times the hybrid score of a document of the candidate lists
TenfoldHybrid(d) == 6 * CandidateVectorScore(d) + 4 * CandidateFulltextScore(d)

\* d comes before e: a higher hybrid score, or an equal one and an earlier
\* insertion
RanksBefore(d, e) ==
  \/ TenfoldHybrid(d) > TenfoldHybrid(e)
  \/ TenfoldHybrid(d) = TenfoldHybrid(e) /\ InsertionIndex(d) < InsertionIndex(e)

\* C14: the results of _hybrid_search are ordered by descending hybrid
\* score, equal scores in insertion order, and they are the first limit
\* documents of that order
C14_HybridOrder ==
  Fused =>
    LET out == search.mode_results
        union == RowIds(search.similar_docs) \cup RowIds(search.search_results)
    IN /\ \A i, j \in 1..Len(out) : i < j => RanksBefore(out[i].id, out[j].id)
       /\ \A d \in union \ ResultIds(out) :
            \A e \in ResultIds(out) : RanksBefore(e, d)
       /\ Len(out) = IF Cardinality(union) < request.limit
                     THEN Cardinality(union) ELSE request.limit

\* a vector result and a result only the full-text search found tie, are
\* returned in that order, and a third document is cut off
C14_Witness ==
  /\ Fused
  /\ search.status_code = 200
  /\ Len(search.response) = 2
  /\ search.response[1].similarity_score = search.response[2].similarity_score
  /\ search.response[1].id \in RowIds(search.similar_docs)
  /\ search.response[2].id \notin RowIds(search.similar_docs)
  /\ Cardinality(RowIds(search.similar_docs) \cup RowIds(search.search_results)) = 3

\* the limit a sub-search is called with: twice the request's limit by
\* _hybrid_search, the request's limit otherwise
SubSearchLimit ==
  IF LowerSearchType(request.search_type) = "hybrid" THEN 2 * request.limit ELSE request.limit

\* C15 as stated: full-text search returns at most limit rows and results,
\* and each relevance score is strictly greater than the next one
C15_StrictlyDescending ==
  /\ Len(search.search_results) <= SubSearchLimit
  /\ Len(search.fulltext_results) <= SubSearchLimit
  /\ \A i \in 1..(Len(search.search_results) - 1) :
       search.search_results[i][4] > search.search_results[i + 1][4]
  /\ \A i \in 1..(Len(search.fulltext_results) - 1) :
       search.fulltext_results[i].relevance_score[1]
         > search.fulltext_results[i + 1].relevance_score[1]

\* C15 as amended: full-text search gets at most limit rows and builds one
\* result per row (unless building them raises), each with the relevance
\* score of its document, and no relevance score is smaller than the next
C15_Descending ==
  /\ Len(search.search_results) <= SubSearchLimit
  /\ search.error # "ValidationError"
       => Len(search.fulltext_results) = Len(search.search_results)
  /\ \A i \in 1..Len(search.search_results) :
       /\ search.search_results[i][4] = corpus.relevance[search.search_results[i][1]]
       /\ search.search_results[i][4] # 0
  /\ \A i \in 1..Len(search.fulltext_results) :
       /\ search.fulltext_results[i].id = search.search_results[i][1]
       /\ search.fulltext_results[i].relevance_score = Some(search.search_results[i][4])
  /\ \A i \in 1..(Len(search.search_results) - 1) :
       search.search_results[i][4] >= search.search_results[i + 1][4]

\* a full-text search answered with two results of equal relevance, ahead
\* of a third document of lower relevance that the limit cuts off
C15_Witness ==
  /\ LowerSearchType(request.search_type) = "fulltext"
  /\ search.status_code = 200
  /\ Len(search.response) = 2
  /\ search.response[1].relevance_score = search.response[2].relevance_score
  /\ \E d \in Docs \ ResultIds(search.response) :
       /\ corpus.relevance[d] # 0
       /\ corpus.relevance[d] < search.response[2].relevance_score[1]

\* C16: vector search gets at most limit rows, in ascending order of
\* distance, and builds one result per row (unless building them raises)
\* whose similarity score is 1 - distance, also when that is negative
C16_VectorSearch ==
  /\ Len(search.similar_docs) <= SubSearchLimit
  /\ search.error # "ValidationError"
       => Len(search.vector_results) = Len(search.similar_docs)
  /\ \A i \in 1..(Len(search.similar_docs) - 1) :
       search.similar_docs[i][5] <= search.similar_docs[i + 1][5]
  /\ \A i \in 1..Len(search.vector_results) :
       /\ search.vector_results[i].id = search.similar_docs[i][1]
       /\ ~Fused =>
            search.vector_results[i].similarity_score
              = Some(10 - corpus.distance[search.similar_docs[i][1]])
  /\ (LowerSearchType(request.search_type) = "vector" /\ search.status_code = 200)
       => /\ Len(search.response) <= request.limit
          /\ \A i \in 1..Len(search.response) :
               search.response[i].similarity_score
                 = Some(10 - corpus.distance[search.response[i].id])

\* a vector search answered with two results, the second of negative
\* similarity, while a third candidate is cut off by the limit
C16_Witness ==
  /\ request.endpoint = "search"
  /\ LowerSearchType(request.search_type) = "vector"
  /\ search.status_code = 200
  /\ Len(search.response) = 2
  /\ search.response[2].similarity_score = Some(0 - 5)
  /\ Cardinality({d \in corpus.embedded : corpus.distance[d] < request.threshold}) = 3

(***************************************************************************)
(* The post-filters as functions of any result list                        *)
(*                                                                         *)
(* _filter_by_date and the file-type filter take a list of                 *)
(* DocumentSearchResult; here they meet every list of up to MaxResults     *)
(* results, with and without creation dates, not only the lists the        *)
(* sub-searches build.                                                     *)
(***************************************************************************)
\* longest result list handed to the filters
MaxResults == 3

\* the results a list may hold
FilterInputs ==
  {DocumentSearchResult(d, "filename", "content", Some(5), Nothing, t) :
     d \in Docs, t \in {Nothing, Some(1), Some(2), Some(3)}}

ResultLists == UNION {[1..n -> FilterInputs] : n \in 0..MaxResults}

FilterInit ==
  /\ statusColumn = "absent"
  /\ documents = [r \in Reqs |-> NoRow]
  /\ document_embeddings = [r \in Reqs |-> 0]
  /\ workflow_executions = [r \in Reqs |-> "none"]
  /\ session = [r \in Reqs |-> EmptySession]
  /\ wf = [r \in Reqs |-> NewWorkflow]
  /\ task = [r \in Reqs |-> NoTask]
  /\ createdAtField \in CreatedAtFields
  /\ corpus = EmptyCorpus
  /\ request \in {q \in SearchRequests :
                    /\ q.endpoint = "search" /\ q.search_type = "vector"
                    /\ q.threshold = 5 /\ q.limit = MaxLimit}
  /\ \E results \in ResultLists :
       /\ AllValid(results)
       /\ search = [IdleSearch EXCEPT !.pc = "filter", !.mode_results = results,
                                      !.results = results]
  /\ search_logs = <<>>
  /\ action = NoAction
  /\ external_actions = <<>>

FilterNext ==
  \/ PostFilters
  \/ Respond

FilterSpec == FilterInit /\ [][FilterNext]_vars

\* a is b with some elements left out
IsSubsequence(a, b) ==
  \E f \in [1..Len(a) -> 1..Len(b)] :
    /\ \A i, j \in 1..Len(a) : i < j => f[i] < f[j]
    /\ \A i \in 1..Len(a) : b[f[i]] = a[i]

\* the filters of the request have run without raising
Filtered == search.pc \in {"log", "done"} /\ search.error = "none"

InFileTypes(d) ==
  request.file_types = <<>> \/ DocFileType[d] \in Range(request.file_types)

InDateRange(d) ==
  /\ request.date_from = Nothing \/ request.date_from[1] <= DocCreatedAt[d]
  /\ request.date_to = Nothing \/ DocCreatedAt[d] <= request.date_to[1]

\* the documents of the unfiltered ranking of the request's mode: every
\* embedded document below the threshold, every document the query matches,
\* every document of the two candidate lists of the fusion
Ranked ==
  CASE LowerSearchType(request.search_type) = "vector"
         -> {d \in corpus.embedded : corpus.distance[d] < request.threshold}
    [] LowerSearchType(request.search_type) = "fulltext"
         -> {d \in Docs : corpus.relevance[d] # 0}
    [] LowerSearchType(request.search_type) = "hybrid"
         -> RowIds(search.similar_docs) \cup RowIds(search.search_results)

\* the key the mode ranks by, larger first
RankKey(d) ==
  CASE LowerSearchType(request.search_type) = "vector" -> 0 - corpus.distance[d]
    [] LowerSearchType(request.search_type) = "fulltext" -> corpus.relevance[d]
    [] LowerSearchType(request.search_type) = "hybrid" -> TenfoldHybrid(d)

\* the ids of a result list, in the list's order
IdList(results) == [i \in 1..Len(results) |-> results[i].id]

C21_SimilarToDocument ==
  (request.endpoint = "similar" /\ search.pc = "done")
    => IF request.document_id \notin corpus.embedded
       THEN /\ search.status_code = 404
            /\ search.error = "not_found"
            /\ search.index_queries = 0
            /\ search.similar_docs = <<>>
            /\ search.response = <<>>
       ELSE /\ search.status_code # 404
            /\ search.index_queries = 1
            /\ search.query_vector = StoredEmbedding(request.document_id)
            /\ Len(search.similar_docs) >= 1
            /\ search.similar_docs[1][5] = 0

\* a similar-to-document request for an id without an embedding row has
\* been answered while other documents have embeddings
C21_Witness ==
  /\ request.endpoint = "similar"
  /\ search.pc = "done"
  /\ request.document_id \notin corpus.embedded
  /\ corpus.embedded # {}
  /\ search.status_code = 404

\* C22: once the sub-search and the filters of search_documents have
\* succeeded, its next step answers 200 with the filtered results cut to
\* the limit and their count, whether the audit-log insert and commit
\* reach the store or raise
C22_LogFailureSwallowed ==
  [][search.pc = "log"
       => /\ search'.pc = "done"
          /\ search'.status_code = 200
          /\ search'.error = "none"
          /\ search'.results = search.results
          /\ search'.response = Take(search.results, request.limit)
          /\ search'.total_count = Len(search.results)]_vars

\* a search was answered with results although its audit-log write raised
C22_Witness ==
  /\ request.endpoint = "search"
  /\ search.pc = "done"
  /\ search.log_raised
  /\ search_logs = <<>>
  /\ search.status_code = 200
  /\ search.response # <<>>

\* C23: every search call of the four endpoints that succeeded, and whose
\* audit-log write did not raise, has left one audit record, with the
\* caller's query text, the search mode and the number of results found
C23_AuditRecord ==
  (search.pc = "done" /\ search.status_code = 200 /\ ~search.log_raised)
    => /\ Len(search_logs) = 1
       /\ search_logs[1].query = request.query
       /\ search_logs[1].search_type = LowerSearchType(request.search_type)
       /\ search_logs[1].results_count = search.total_count

(***************************************************************************)
(* Properties of the ingestion pipeline's store                            *)
(***************************************************************************)
\* search_similar_documents reads FROM documents d JOIN document_embeddings
\* de on its own connection: a document is a candidate of vector search
\* when its row and an embedding row are committed; nothing in the WHERE
\* clause reads the status
InVectorIndex(r) == documents[r].exists /\ document_embeddings[r] >= 1

\* C24: in every reachable state each document that vector search can
\* return has the persisted status completed
C24_OnlyCompletedSearchable ==
  \A r \in Reqs : InVectorIndex(r) => documents[r].status = "completed"

\* C26: whenever a document's embedding task exists, and whenever an
\* embedding insert has been executed or committed for the document, the
\* document's row is committed and holds the extracted content and its
\* hash, which are those of the document process_document returned
C26_RowCommittedBeforeTask ==
  \A r \in Reqs :
    (\/ task[r].pc # "none"
     \/ task[r].inserts > 0
     \/ session[r].embeddings > 0
     \/ document_embeddings[r] > 0)
      => /\ Accepted(r)
         /\ documents[r].exists
         /\ documents[r].file_type = GetFileType(wf[r].filename)
         /\ documents[r].content = ExtractText(wf[r].kind, documents[r].file_type)
         /\ documents[r].content_hash = ContentHash(documents[r].content)
         /\ wf[r].document.content = documents[r].content
         /\ wf[r].document.content_hash = documents[r].content_hash

\* the task has executed its embedding insert, not yet committed
C26_Witness ==
  \E r \in Reqs :
    /\ task[r].pc = "update"
    /\ task[r].inserts = 1
    /\ session[r].embeddings = 1
    /\ documents[r].exists
    /\ Truthy(documents[r].content)

C28_NotFoundDistinct ==
  \A r \in Reqs :
    (documents[r].exists /\ documents[r].content = None)
      => /\ GetDocumentStatus(r) # StatusOfMissingDocument
         /\ GetDocumentContent(r) # ContentOfRow(NoRow)

\* the embedding task of a document with non-empty content has run to its
\* end, through the commit of line 190, without an exception
StageSucceeded(r) ==
  /\ task[r].pc = "done"
  /\ ~task[r].raised
  /\ Truthy(wf[r].document.content)

PendingMutations(r) ==
  session[r].embeddings + (IF session[r].status # "none" THEN 1 ELSE 0)

C31_HashIffContent ==
  \A r \in Reqs :
    Accepted(r)
      => /\ documents[r].exists
         /\ (documents[r].content_hash # None) <=> (documents[r].content # None)
         /\ (wf[r].document.content_hash # None) <=> (wf[r].document.content # None)

C36_FailedAndReraised ==
  \A r \in Reqs :
    /\ wf[r].reraised # "none"
         => /\ workflow_executions[r] = "failed"
            /\ wf[r].reraised = wf[r].error
    /\ (wf[r].pc = "returned" \/ (wf[r].pc = "closed" /\ wf[r].reraised = "none"))
         => workflow_executions[r] # "running"

SessionSteps == {"insert", "update", "commit", "h_update", "h_commit"}

\* C38: once the caller has closed the session, the background task takes
\* no step that executes a statement or a commit on it
C38_NoSessionUseAfterClose ==
  [][\A r \in Reqs :
       (wf[r].pc = "closed" /\ task'[r] # task[r])
         => task[r].pc \notin SessionSteps]_vars

(***************************************************************************)
(* Two uploads.  Each upload is a request of its own, with its own         *)
(* session, its own uuid4 document id (the upload's name) and its own      *)
(* workflow; the steps of the two interleave freely.  Of the store's       *)
(* failures only that of the task's commit is let happen, and the status   *)
(* queries take no time.                                                   *)
(***************************************************************************)
Uploads == {"u1", "u2"}

\* the uploads' file name
UploadNames == {<<"a", ".", "p", "d", "f">>}

\* the uploads' files: with text, or well-formed without text
UploadKinds == {"text", "blank"}

UploadStart(r) == StartWorkflow(r, UploadNames, UploadKinds)

\* _wait_for_processing, one turn of the loop, with a status query that
\* takes less than a second
UploadPoll(r) ==
  /\ wf[r].pc = "wait"
  /\ Seconds(wf[r].elapsed) < WaitTimeout
  /\ wf' = Polled(r, 0)
  /\ UNCHANGED <<searchVars, actionVars, statusColumn, documents, document_embeddings, workflow_executions,
                 session, task>>

UploadInit ==
  /\ statusColumn \in StatusColumns
  /\ documents = [r \in Uploads |-> NoRow]
  /\ document_embeddings = [r \in Uploads |-> 0]
  /\ workflow_executions = [r \in Uploads |-> "none"]
  /\ session = [r \in Uploads |-> EmptySession]
  /\ wf = [r \in Uploads |-> NewWorkflow]
  /\ task = [r \in Uploads |-> NoTask]
  /\ createdAtField = "required"
  /\ corpus = EmptyCorpus
  /\ request = NoRequest
  /\ search = IdleSearch
  /\ search_logs = <<>>
  /\ action = NoAction
  /\ external_actions = <<>>

UploadNext ==
  \E r \in Uploads :
    \/ UploadStart(r)
    \/ ProcessDocument(r)
    \/ UploadPoll(r)
    \/ WaitSleep(r)
    \/ WaitTimeoutError(r)
    \/ WorkflowSteps(r)
    \/ WorkflowCompleted(r)
    \/ WorkflowFailed(r)
    \/ CloseSession(r)
    \/ WorkflowCompletedCommit(r, TRUE)
    \/ WorkflowFailedCommit(r, TRUE)
    \/ TaskEncode(r, TRUE)
    \/ TaskInsertEmbedding(r, TRUE)
    \/ TaskUpdateCompleted(r, TRUE)
    \/ \E ok \in BOOLEAN : TaskCommit(r, ok)
    \/ TaskUpdateFailed(r, TRUE)
    \/ TaskCommitFailed(r, TRUE)

UploadSpec == UploadInit /\ [][UploadNext]_vars

\* C25: an upload of a supported type that process_document has handled
\* is accepted and has its row, whatever the other upload has stored; and
\* two accepted uploads of identical content have two rows, under distinct
\* ids, with equal content_hash
C25_NoDeduplication ==
  /\ \A r \in Uploads :
       (Ingested(r) /\ GetFileType(wf[r].filename) # "ValueError")
         => (Accepted(r) /\ documents[r].exists)
  /\ \A a, b \in Uploads :
       (a # b /\ Accepted(a) /\ Accepted(b)
          /\ wf[a].document.content = wf[b].document.content)
         => /\ documents[a].exists /\ documents[b].exists
            /\ wf[a].document.id # wf[b].document.id
            /\ documents[a].content = documents[b].content
            /\ documents[a].content_hash = documents[b].content_hash
            /\ wf[a].document.content_hash = wf[b].document.content_hash

\* two uploads with the same text have both been accepted, the second
\* while the first one's embedding task had already finished
C25_Witness ==
  /\ Accepted("u1") /\ Accepted("u2")
  /\ wf["u1"].document.content = Text
  /\ wf["u2"].document.content = Text
  /\ documents["u1"].exists /\ documents["u2"].exists
  /\ documents["u1"].content_hash = documents["u2"].content_hash
  /\ task["u1"].pc = "done"
  /\ task["u2"].pc = "begin"

(***************************************************************************)
(* Further properties of the retrieval engine                              *)
(***************************************************************************)
\* the smaller of two numbers
Min(a, b) == IF a <= b THEN a ELSE b

\* the documents of the two candidate lists of a hybrid search
CandidateIds == RowIds(search.similar_docs) \cup RowIds(search.search_results)

\* C32: the candidate lists of a hybrid search are what the store answers
\* to requests for 2 * limit rows; no document occurs twice in what the
\* fusion returns, every document it returns is in one of the candidate
\* lists, and it returns as many documents of their union as the limit
\* allows
C32_HybridUnion ==
  Fused =>
    /\ search.similar_docs \in SearchSimilarDocuments(2 * request.limit, request.threshold)
    /\ search.search_results \in FullTextSearch(2 * request.limit)
    /\ \A i, j \in 1..Len(search.mode_results) :
         i # j => search.mode_results[i].id # search.mode_results[j].id
    /\ ResultIds(search.mode_results) \subseteq CandidateIds
    /\ Len(search.mode_results) = Min(request.limit, Cardinality(CandidateIds))

\* a hybrid search whose sub-searches both returned more candidates than
\* the limit, with a document in both lists and one in one list only
C32_Witness ==
  /\ Fused
  /\ request.limit > 0
  /\ Len(search.similar_docs) > request.limit
  /\ Len(search.search_results) > request.limit
  /\ RowIds(search.similar_docs) \cap RowIds(search.search_results) # {}
  /\ RowIds(search.similar_docs) # RowIds(search.search_results)
  /\ Len(search.mode_results) = request.limit

\* C33: building results from the rows of the store never fails on
\* validation, and every result built by vector search, by full-text
\* search or by similar-to-document search carries a creation timestamp
C33_ResultsCarryCreatedAt ==
  /\ search.error # "ValidationError"
  /\ \A i \in 1..Len(search.vector_results) :
       search.vector_results[i].created_at # Nothing
  /\ \A i \in 1..Len(search.fulltext_results) :
       search.fulltext_results[i].created_at # Nothing

(***************************************************************************)
(* The external action service: one call of send_slack_notification,       *)
(* create_calendar_event, send_email_notification or trigger_webhook       *)
(***************************************************************************)
ActionTypes == {"slack_notification", "calendar_event", "email", "webhook"}

\* the action_id of the call, a fresh uuid4
ActionId == "a1"

\* the channel argument of send_slack_notification
Channels == {None, "#ops"}

\* settings.SLACK_CHANNEL_ID
SlackChannelIds == {None, "C0123"}

\* the sends that reach a service and may raise: the Slack client's
\* chat_postMessage, when a client is configured, and the webhook's POST
\* with raise_for_status; the other paths print
CanFail(type, client) ==
  \/ type = "slack_notification" /\ client
  \/ type = "webhook"

\* json.dumps of the response_data handed to _log_external_action: the
\* SlackResponse of a successful chat_postMessage is not serialisable
Serialisable(type, client, success) ==
  ~(type = "slack_notification" /\ client /\ success)

\* the status of the returned result when the try block ran through
SentStatus(type) ==
  CASE type = "slack_notification" -> "sent"
    [] type = "email" -> "sent"
    [] type = "calendar_event" -> "created"
    [] type = "webhook" -> "triggered"

\* where the operation goes on after _log_external_action: the webhook's
\* success log runs inside `async with`, whose exit follows
AfterActionLog(a) ==
  IF a.type = "webhook" /\ a.success /\ ~a.exited THEN "exit" ELSE "return"

\* an _log_external_action that lets the exception of its insert or
\* commit out, past the except clause of the operation
LogFailedPropagating(a) == [a EXCEPT !.pending = FALSE, !.raised = TRUE, !.pc = "done"]

\* _log_external_action lines 366-368: the exception of the insert or of
\* the commit is printed and swallowed
LogFailed(a) == [a EXCEPT !.pending = FALSE, !.pc = AfterActionLog(a)]

\* send_slack_notification line 50: channel or settings.SLACK_CHANNEL_ID
\* or "#general"
TargetChannel(channel, slack_channel_id) ==
  IF channel # None THEN channel
  ELSE IF slack_channel_id # None THEN slack_channel_id
  ELSE "#general"

\* the try block up to the send: the service answers, or raises into the
\* except clause
SendAction ==
  /\ action.pc = "send"
  /\ \E ok \in BOOLEAN :
       /\ ~ok => CanFail(action.type, action.client)
       /\ action' = [action EXCEPT
                       !.target_channel =
                         IF action.type = "slack_notification"
                         THEN TargetChannel(action.channel, action.slack_channel_id)
                         ELSE @,
                       !.sent = IF ok THEN "ok" ELSE "raised",
                       !.success = ok,
                       !.pc = "log"]
  /\ UNCHANGED <<ingestVars, searchVars, external_actions>>

\* _log_external_action lines 347-361: serialise the data and execute the
\* INSERT, which the primary key rejects for an id that has a row and the
\* foreign key for a workflow id that has none
LogExternalAction ==
  /\ action.pc = "log"
  /\ \E ok \in BOOLEAN :
       action' =
         IF /\ ok
            /\ Serialisable(action.type, action.client, action.success)
            /\ action.workflow_known
            /\ \A i \in 1..Len(external_actions) : external_actions[i].id # ActionId
         THEN [action EXCEPT !.pending = TRUE, !.pc = "commit"]
         ELSE LogFailed(action)
  /\ UNCHANGED <<ingestVars, searchVars, external_actions>>

\* _log_external_action line 363: the commit
CommitExternalAction ==
  /\ action.pc = "commit"
  /\ \E ok \in BOOLEAN :
       IF ok
       THEN /\ external_actions' =
                 Append(external_actions,
                        [id |-> ActionId, action_type |-> action.type,
                         status |-> IF action.success THEN "sent" ELSE "failed"])
            /\ action' = [action EXCEPT !.pending = FALSE, !.pc = AfterActionLog(action)]
       ELSE /\ action' = LogFailed(action)
            /\ UNCHANGED external_actions
  /\ UNCHANGED <<ingestVars, searchVars>>

\* trigger_webhook: leaving `async with httpx.AsyncClient()` closes the
\* client; when that raises, the except clause logs the action as failed
WebhookExit ==
  /\ action.pc = "exit"
  /\ \E ok \in BOOLEAN :
       action' = IF ok THEN [action EXCEPT !.exited = TRUE, !.pc = "return"]
                 ELSE [action EXCEPT !.exited = TRUE, !.success = FALSE, !.pc = "log"]
  /\ UNCHANGED <<ingestVars, searchVars, external_actions>>

\* the result returned to the workflow
ReturnAction ==
  /\ action.pc = "return"
  /\ action' = [action EXCEPT
                  !.status = IF action.success THEN SentStatus(action.type) ELSE "failed",
                  !.pc = "done"]
  /\ UNCHANGED <<ingestVars, searchVars, external_actions>>

\* an operation is called, with or without a configured client (only the
\* Slack client is ever set: _initialize_clients leaves calendar_service
\* None), for a workflow id that has a workflow_executions row or has none
ActionInit ==
  /\ statusColumn = "absent"
  /\ documents = [r \in Reqs |-> NoRow]
  /\ document_embeddings = [r \in Reqs |-> 0]
  /\ workflow_executions = [r \in Reqs |-> "none"]
  /\ session = [r \in Reqs |-> EmptySession]
  /\ wf = [r \in Reqs |-> NewWorkflow]
  /\ task = [r \in Reqs |-> NoTask]
  /\ createdAtField = "required"
  /\ corpus = EmptyCorpus
  /\ request = NoRequest
  /\ search = IdleSearch
  /\ search_logs = <<>>
  /\ \E type \in ActionTypes, client \in BOOLEAN, workflow_known \in BOOLEAN,
        channel \in Channels, slack_channel_id \in SlackChannelIds :
       /\ client => type = "slack_notification"
       /\ type # "slack_notification" => (channel = None /\ slack_channel_id = None)
       /\ action = [NoAction EXCEPT !.pc = "send", !.type = type, !.client = client,
                                    !.workflow_known = workflow_known,
                                    !.channel = channel,
                                    !.slack_channel_id = slack_channel_id]
  /\ external_actions = <<>>

ActionNext ==
  \/ SendAction
  \/ LogExternalAction
  \/ CommitExternalAction
  \/ WebhookExit
  \/ ReturnAction

ActionSpec == ActionInit /\ [][ActionNext]_vars

\* C34: no exception of an external action operation reaches its caller;
\* an operation whose send raised returns a result with the status failed;
\* a call leaves at most one row in external_actions, with the call's id
\* and a status that tells whether the send succeeded; and every call that
\* has ended has returned a result
C34_ActionsNeverRaise ==
  /\ ~action.raised
  /\ Len(external_actions) <= 1
  /\ \A i \in 1..Len(external_actions) :
       /\ external_actions[i].id = ActionId
       /\ external_actions[i].action_type = action.type
       /\ external_actions[i].status = "failed" => action.sent = "raised" \/ action.exited
  /\ action.pc = "done"
       => /\ action.status \in {"sent", "created", "triggered", "failed"}
          /\ action.sent = "raised" => action.status = "failed"

\* a webhook whose POST raised has returned a failed result although the
\* insert of its audit record was rejected
C34_Witness ==
  /\ action.pc = "done"
  /\ action.type = "webhook"
  /\ action.sent = "raised"
  /\ ~action.workflow_known
  /\ external_actions = <<>>
  /\ action.status = "failed"

(***************************************************************************)
(* The search type of a request                                            *)
(***************************************************************************)
\* C39: a search request whose lowered search type is none of vector,
\* fulltext and hybrid is answered 400 without a query to either index,
\* without results and without an audit record; one whose lowered search
\* type is one of the three is not answered 400
C39_InvalidSearchTypeRejected ==
  (request.endpoint = "search" /\ search.pc = "done")
    => IF LowerSearchType(request.search_type) \notin SearchTypes
       THEN /\ search.status_code = 400
            /\ search.error = "Invalid search type"
            /\ search.index_queries = 0
            /\ search.similar_docs = <<>>
            /\ search.search_results = <<>>
            /\ search.response = <<>>
            /\ search_logs = <<>>
       ELSE search.status_code # 400

\* a request for an unknown search type, written with a capital, has been
\* rejected over a corpus that holds documents
C39_Witness ==
  /\ request.endpoint = "search"
  /\ request.search_type = "Semantic"
  /\ corpus.embedded # {}
  /\ search.pc = "done"
  /\ search.status_code = 400

====
